---- MODULE Spec2Model ----
(***************************************************************************)
(* fastio: the buffered write engine (FastWriter) and the buffered read    *)
(* engine (FastReader) of src/fastio/writer.go, as state machines.         *)
(*                                                                         *)
(* A byte is its ASCII code.  A Go error is a string: "nil" for no error,  *)
(* "sinkerr" for an error returned by the sink, "short" for                *)
(* io.ErrShortWrite, "EOF" for io.EOF, "ioerr" for another error returned  *)
(* by the source, "nodigits" for the "no digits found" errors.             *)
(* writerError wraps the sink's error and compares equal to it             *)
(* (writerError.Is, writer.go:34-39), so both are the same string here.    *)
(***************************************************************************)
EXTENDS Integers, Sequences, FiniteSets, TLC

\* ------------------------------------------------------------------ bounds
\* The buffer capacities of the code are 64 KB; the model scales them down
\* so that filling, exactly filling and exceeding the buffer all happen.
defaultWriterBufSize == 4
\* Operations performed on one writer.
MaxWriterOps == 3
\* Sink calls that succeed before the sink starts to misbehave.
MaxOkCalls == 2
defaultReaderBufSize == 3
\* Bytes of input given to one reader.
MaxInput == 3
\* Integers written and read back in one round trip.
MaxInts == 2
\* Go's int is 64 bits wide; the model keeps the wrap-around at a smaller width.
IntBits == 8
\* Bytes of input given to a reader and its twin when tokenizing.
MaxTokenInput == 3

\* ------------------------------------------------------------------ helpers
Min(a, b) == IF a < b THEN a ELSE b

\* buf[lo:hi] of Go, on a 1-based sequence holding the array.
Slice(s, lo, hi) == SubSeq(s, lo + 1, hi)

\* Mutant of CopyInto: the copy forgets the offset, copy(dst, p).
CopyInto_NoOffset(buf, at, p) ==
    [i \in 1..Len(buf) |-> IF i <= Len(p) THEN p[i] ELSE buf[i]]

\* copy(dst[at:], p): the array after the copy.
CopyInto(buf, at, p) ==
    [i \in 1..Len(buf) |->
        IF i > at /\ i <= at + Len(p) THEN p[i - at] ELSE buf[i]]

RECURSIVE Concat(_)
Concat(ss) == IF ss = <<>> THEN <<>> ELSE Head(ss) \o Concat(Tail(ss))

\* ------------------------------------------------------------------ the sink
\* An io.Writer as the tests build them: it accepts every region in full
\* (bytes.Buffer), or after okLeft good calls it behaves as `after` says on
\* every later call: "fail" returns (0, error) as errorWriter does, "short"
\* accepts one byte less than it was given and reports no error.  The sink
\* keeps what it was called with (calls), what it accepted (data) and whether
\* it ever refused anything (failed).
SinkWrite(w, p) ==
    LET kind == IF w.okLeft > 0 THEN "ok" ELSE w.after
        n    == CASE kind = "ok"    -> Len(p)
                  [] kind = "short" -> IF Len(p) = 0 THEN 0 ELSE Len(p) - 1
                  [] kind = "fail"  -> 0
    IN  [w   |-> [calls  |-> Append(w.calls, p),
                  data   |-> w.data \o SubSeq(p, 1, n),
                  okLeft |-> IF w.okLeft > 0 THEN w.okLeft - 1 ELSE 0,
                  after  |-> w.after,
                  failed |-> w.failed \/ kind = "fail" \/ n < Len(p)],
         n   |-> n,
         err |-> IF kind = "fail" THEN "sinkerr" ELSE "nil"]

NewSink(okLeft, after) ==
    [calls |-> <<>>, data |-> <<>>, okLeft |-> okLeft, after |-> after, failed |-> FALSE]

\* ------------------------------------------------------------------ FastWriter
NewWriter(w) ==
    [w         |-> w,
     buf       |-> [i \in 1..defaultWriterBufSize |-> 0],
     pos       |-> 0,
     err       |-> "nil",
     autoFlush |-> FALSE,
     limit     |-> defaultWriterBufSize \div 2,
     scratch   |-> <<>>]

NewWriterWithAutoFlush(w, limit) ==
    [w         |-> w,
     buf       |-> [i \in 1..defaultWriterBufSize |-> 0],
     pos       |-> 0,
     err       |-> "nil",
     autoFlush |-> TRUE,
     limit     |-> IF limit <= 0 \/ limit > defaultWriterBufSize
                   THEN defaultWriterBufSize \div 2 ELSE limit,
     scratch   |-> <<>>]

Err(f) == f.err

\* Every method returns the engine after the call and the error returned.
\* A method is written as a chain of operators, one per stretch of its code,
\* each taking what the stretch before it produced.

\* Mutant of FlushDone: the count the sink returns is not compared with position.
FlushDone_IgnoreShort(f, r) ==
    IF r.err # "nil"
    THEN [fw |-> [f EXCEPT !.w = r.w, !.err = r.err], ret |-> r.err]
    ELSE [fw |-> [f EXCEPT !.w = r.w, !.pos = 0], ret |-> "nil"]

\* Flush after n, err := fw.w.Write(fw.buf[:fw.pos]); r is what the sink returned.
FlushDone(f, r) ==
    IF r.err # "nil"
    THEN [fw |-> [f EXCEPT !.w = r.w, !.err = r.err], ret |-> r.err]
    ELSE IF r.n < f.pos
    THEN [fw |-> [f EXCEPT !.w = r.w, !.err = "short"], ret |-> "short"]
    ELSE [fw |-> [f EXCEPT !.w = r.w, !.pos = 0], ret |-> "nil"]

\* Mutant of Flush: the sticky error is not looked at.
Flush_NoStickyCheck(f) ==
    IF f.pos = 0 THEN [fw |-> f, ret |-> "nil"]
    ELSE FlushDone(f, SinkWrite(f.w, Slice(f.buf, 0, f.pos)))

\* Mutant of Flush: an empty buffer is written to the sink as well.
Flush_NoEmptyCheck(f) ==
    IF f.err # "nil" THEN [fw |-> f, ret |-> f.err]
    ELSE FlushDone(f, SinkWrite(f.w, Slice(f.buf, 0, f.pos)))

Flush(f) ==
    IF f.err # "nil" THEN [fw |-> f, ret |-> f.err]
    ELSE IF f.pos = 0 THEN [fw |-> f, ret |-> "nil"]
    ELSE FlushDone(f, SinkWrite(f.w, Slice(f.buf, 0, f.pos)))

\* After a sink call whose count is ignored: record the error, if any.
SinkCallDone(f, r) ==
    IF r.err # "nil"
    THEN [fw |-> [f EXCEPT !.w = r.w, !.err = r.err], ret |-> r.err]
    ELSE [fw |-> [f EXCEPT !.w = r.w], ret |-> "nil"]

\* Mutant of checkWriter: the sink is not probed.
checkWriter_NoProbe(f) == [fw |-> f, ret |-> f.err]

checkWriter(f) ==
    IF f.err # "nil" THEN [fw |-> f, ret |-> f.err]
    ELSE SinkCallDone(f, SinkWrite(f.w, <<>>))

\* ensureSpace's branch n > len(fw.buf), after its Flush returned a.
ensureSpaceBypass(a) ==
    IF a.ret # "nil" THEN a
    ELSE SinkCallDone(a.fw, SinkWrite(a.fw.w, Slice(a.fw.buf, 0, 0)))

\* Mutant of ensureSpaceRoom: a write that exactly fills the buffer flushes first.
ensureSpaceRoom_FlushWhenFull(f, n) ==
    IF n > Len(f.buf) THEN ensureSpaceBypass(Flush(f))
    ELSE IF f.pos + n >= Len(f.buf) THEN Flush(f)
    ELSE [fw |-> f, ret |-> "nil"]

\* The tail of ensureSpace, from the test n > len(fw.buf) on.
ensureSpaceRoom(f, n) ==
    IF n > Len(f.buf) THEN ensureSpaceBypass(Flush(f))
    ELSE IF f.pos + n > Len(f.buf) THEN Flush(f)
    ELSE [fw |-> f, ret |-> "nil"]

\* ensureSpace after checkWriter returned c.
ensureSpaceChecked(c, n) ==
    IF c.ret # "nil" THEN c ELSE ensureSpaceRoom(c.fw, n)

ensureSpace(f, n) ==
    IF f.err # "nil" THEN [fw |-> f, ret |-> f.err]
    ELSE IF f.pos = 0 THEN ensureSpaceChecked(checkWriter(f), n)
    ELSE ensureSpaceRoom(f, n)

\* The loop of Write: p is what is left to write, total what was copied.
RECURSIVE WriteLoop(_, _, _)

\* After the auto-flush of an iteration returned a.
WriteFlushed(a, p, total) ==
    IF a.ret # "nil" THEN [fw |-> a.fw, n |-> total, ret |-> a.ret]
    ELSE WriteLoop(a.fw, p, total)

\* After the copy of an iteration: the auto-flush test.
WriteAuto(g, p, total) ==
    IF g.autoFlush /\ g.pos >= g.limit
    THEN WriteFlushed(Flush(g), p, total)
    ELSE WriteLoop(g, p, total)

\* The bytes one iteration copies: copy stops at the end of the buffer.
CopyCount(f, p) == Min(Len(f.buf) - f.pos, Len(p))

\* After ensureSpace returned e: n := copy(fw.buf[fw.pos:], p), pos += n, p = p[n:].
WriteCopy(e, p, total) ==
    IF e.ret # "nil" THEN [fw |-> e.fw, n |-> total, ret |-> e.ret]
    ELSE WriteAuto(
            [e.fw EXCEPT !.buf = CopyInto(e.fw.buf, e.fw.pos, SubSeq(p, 1, CopyCount(e.fw, p))),
                         !.pos = e.fw.pos + CopyCount(e.fw, p)],
            SubSeq(p, CopyCount(e.fw, p) + 1, Len(p)),
            total + CopyCount(e.fw, p))

WriteLoop(f, p, total) ==
    IF Len(p) = 0 THEN [fw |-> f, n |-> total, ret |-> "nil"]
    ELSE WriteCopy(ensureSpace(f, Len(p)), p, total)

Write(f, p) ==
    IF f.err # "nil" THEN [fw |-> f, n |-> 0, ret |-> f.err]
    ELSE WriteLoop(f, p, 0)

\* Mutant of WriteByteAuto: the threshold is compared with > instead of >=.
WriteByteAuto_StrictLimit(g) ==
    IF g.autoFlush /\ g.pos > g.limit THEN Flush(g)
    ELSE [fw |-> g, ret |-> "nil"]

\* WriteByte after the byte is stored: the auto-flush test.
WriteByteAuto(g) ==
    IF g.autoFlush /\ g.pos >= g.limit THEN Flush(g)
    ELSE [fw |-> g, ret |-> "nil"]

\* WriteByte after ensureSpace returned e.
WriteByteStore(e, b) ==
    IF e.ret # "nil" THEN e
    ELSE WriteByteAuto([e.fw EXCEPT !.buf[e.fw.pos + 1] = b, !.pos = e.fw.pos + 1])

WriteByte(f, b) == WriteByteStore(ensureSpace(f, 1), b)

\* _, err := fw.Write(b): the count is dropped.
DropCount(r) == [fw |-> r.fw, ret |-> r.ret]

WriteBytes(f, b) == DropCount(Write(f, b))

WriteString(f, s) == WriteBytes(f, s)

\* WriteLine after WriteString returned r.
WriteLineEnd(r) == IF r.ret # "nil" THEN r ELSE WriteByte(r.fw, 10)

WriteLine(f, s) == WriteLineEnd(WriteString(f, s))

\* strconv.AppendInt(dst[:0], v, 10): '-' for a negative value, then the
\* decimal digits of the magnitude, no leading zero except for 0 itself.
RECURSIVE Digits(_)
Digits(n) == IF n < 10 THEN <<48 + n>> ELSE Digits(n \div 10) \o <<48 + (n % 10)>>

AppendInt(v) == IF v < 0 THEN <<45>> \o Digits(-v) ELSE Digits(v)

\* return fw.WriteBytes(fw.scratch)
WriteScratch(g) == WriteBytes(g, g.scratch)

WriteInt(f, v) == WriteScratch([f EXCEPT !.scratch = AppendInt(v)])

\* ------------------------------------------------------------------ the source
\* An io.Reader: data is what it has not delivered yet, calls counts its Read
\* calls, script says how it answers the next calls: each answer is a byte
\* count (cut to what is left and to the buffer) and an error.  With no
\* script left it delivers all it can, and (0, EOF) when nothing is left,
\* as strings.Reader does.
SourceAnswer(r) ==
    IF r.script # <<>> THEN Head(r.script)
    ELSE IF r.data = <<>> THEN [n |-> 0, err |-> "EOF"]
    ELSE [n |-> Len(r.data), err |-> "nil"]

SourceCount(r, room) == Min(Min(SourceAnswer(r).n, Len(r.data)), room)

SourceRead(r, room) ==
    [r     |-> [data   |-> SubSeq(r.data, SourceCount(r, room) + 1, Len(r.data)),
                script |-> IF r.script # <<>> THEN Tail(r.script) ELSE <<>>,
                calls  |-> r.calls + 1],
     bytes |-> SubSeq(r.data, 1, SourceCount(r, room)),
     err   |-> SourceAnswer(r).err]

NewSource(data) == [data |-> data, script |-> <<>>, calls |-> 0]

\* ------------------------------------------------------------------ FastReader
NewReader(r) ==
    [r   |-> r,
     buf |-> [i \in 1..defaultReaderBufSize |-> 0],
     pos |-> 0,
     n   |-> 0,
     err |-> "nil"]

\* fill after n, err := fr.r.Read(fr.buf); s is what the source returned
\* (never a negative count, so the n < 0 guard has nothing to do).
fillDone(f, s) ==
    [f EXCEPT !.r   = s.r,
              !.buf = CopyInto(f.buf, 0, s.bytes),
              !.n   = Len(s.bytes),
              !.pos = 0,
              !.err = IF s.err # "nil" THEN s.err ELSE f.err]

fill(f) ==
    IF f.err # "nil" THEN f
    ELSE fillDone(f, SourceRead(f.r, Len(f.buf)))

\* if fr.n == 0 { if fr.err == nil { fr.err = io.EOF } }: the error to record.
EOFIfNone(g) == IF g.err = "nil" THEN "EOF" ELSE g.err

\* ensureData after its fill.
ensureDataFilled(g) ==
    IF g.n = 0
    THEN [fr |-> [g EXCEPT !.err = EOFIfNone(g)], ret |-> EOFIfNone(g)]
    ELSE [fr |-> g, ret |-> "nil"]

\* Mutant of ensureData: end-of-input hides the bytes that came with it.
ensureData_EOFHidesBytes(f) ==
    IF f.err # "nil" THEN [fr |-> f, ret |-> f.err]
    ELSE IF f.pos >= f.n THEN ensureDataFilled(fill(f))
    ELSE [fr |-> f, ret |-> "nil"]

ensureData(f) ==
    IF f.err # "nil" /\ ~(f.err = "EOF" /\ f.pos < f.n) THEN [fr |-> f, ret |-> f.err]
    ELSE IF f.pos >= f.n THEN ensureDataFilled(fill(f))
    ELSE [fr |-> f, ret |-> "nil"]

\* The byte operations return the engine, the byte and the error.

\* Mutant of ReadByteRet: the byte is returned without the recorded error.
ReadByteRet_NoError(g, b) == [fr |-> g, val |-> b, ret |-> "nil"]

\* ReadByte's last test: the byte was the last one and an error is recorded.
ReadByteRet(g, b) ==
    IF g.pos >= g.n /\ g.err # "nil" THEN [fr |-> g, val |-> b, ret |-> g.err]
    ELSE [fr |-> g, val |-> b, ret |-> "nil"]

\* Mutant of ReadByteFilled: the byte comes back without the end-of-input
\* the read-ahead found.
ReadByteFilled_Quiet(g, b) ==
    IF g.n = 0
    THEN [fr |-> [g EXCEPT !.err = EOFIfNone(g)], val |-> b, ret |-> "nil"]
    ELSE ReadByteRet(g, b)

\* ReadByte inside if fr.pos >= fr.n, after the read-ahead fill.
ReadByteFilled(g, b) ==
    IF g.n = 0
    THEN [fr |-> [g EXCEPT !.err = EOFIfNone(g)], val |-> b, ret |-> EOFIfNone(g)]
    ELSE ReadByteRet(g, b)

\* Mutant of ReadByteAhead: no read-ahead.
ReadByteAhead_NoReadAhead(g, b) == ReadByteRet(g, b)

\* Mutant of ReadByteAhead: the read-ahead asks the source whatever is recorded.
ReadByteAhead_AlwaysRead(g, b) ==
    IF g.pos >= g.n
    THEN ReadByteFilled(fillDone(g, SourceRead(g.r, Len(g.buf))), b)
    ELSE ReadByteRet(g, b)

\* ReadByte after b := fr.buf[fr.pos]; fr.pos++.
ReadByteAhead(g, b) ==
    IF g.pos >= g.n
    THEN ReadByteFilled(IF g.err = "nil" THEN fill(g) ELSE g, b)
    ELSE ReadByteRet(g, b)

\* Mutant of ReadByteTake: the cursor moves on when there is no byte, too.
ReadByteTake_MovesOnError(e) ==
    IF e.ret # "nil"
    THEN [fr |-> [e.fr EXCEPT !.pos = e.fr.pos + 1], val |-> 0, ret |-> e.ret]
    ELSE ReadByteAhead([e.fr EXCEPT !.pos = e.fr.pos + 1], e.fr.buf[e.fr.pos + 1])

\* ReadByte after ensureData returned e.
ReadByteTake(e) ==
    IF e.ret # "nil" THEN [fr |-> e.fr, val |-> 0, ret |-> e.ret]
    ELSE ReadByteAhead([e.fr EXCEPT !.pos = e.fr.pos + 1], e.fr.buf[e.fr.pos + 1])

ReadByte(f) == ReadByteTake(ensureData(f))

\* PeekByte after ensureData returned e.
PeekByteTake(e) ==
    IF e.ret # "nil" THEN [fr |-> e.fr, val |-> 0, ret |-> e.ret]
    ELSE [fr |-> e.fr, val |-> e.fr.buf[e.fr.pos + 1], ret |-> "nil"]

PeekByte(f) == PeekByteTake(ensureData(f))

\* Mutant of IsSpace: a tab is no white space.
IsSpace_NoTab(b) == b = 32 \/ b = 10 \/ b = 13

\* b == ' ' || b == '\n' || b == '\r' || b == '\t'
IsSpace(b) == b = 32 \/ b = 10 \/ b = 13 \/ b = 9

\* _, _ = fr.ReadByte(): the byte and the error are dropped.
Skip(rb) == rb.fr

RECURSIVE SkipSpaces(_)

\* Mutant of SkipSpacesPeeked: end-of-input is returned as an error.
SkipSpacesPeeked_EOFIsError(pk) ==
    IF pk.ret # "nil" THEN [fr |-> pk.fr, ret |-> pk.ret]
    ELSE IF IsSpace(pk.val) THEN SkipSpaces(Skip(ReadByte(pk.fr)))
    ELSE [fr |-> pk.fr, ret |-> "nil"]

\* One turn of the loop of SkipSpaces, after PeekByte returned pk.
SkipSpacesPeeked(pk) ==
    IF pk.ret # "nil"
    THEN [fr |-> pk.fr, ret |-> IF pk.ret = "EOF" THEN "nil" ELSE pk.ret]
    ELSE IF IsSpace(pk.val) THEN SkipSpaces(Skip(ReadByte(pk.fr)))
    ELSE [fr |-> pk.fr, ret |-> "nil"]

SkipSpaces(f) == SkipSpacesPeeked(PeekByte(f))

\* The tokenizers return the engine, the value and the error.

\* Mutant of NextWordEnd: a word of no bytes is returned as a word.
NextWordEnd_EmptyWord(f, buf) == [fr |-> f, val |-> buf, ret |-> "nil"]

\* NextWord after its loop.
NextWordEnd(f, buf) ==
    IF Len(buf) = 0 THEN [fr |-> f, val |-> <<>>, ret |-> "EOF"]
    ELSE [fr |-> f, val |-> buf, ret |-> "nil"]

RECURSIVE NextWordLoop(_, _)

\* One turn of the loop of NextWord, after PeekByte returned pk.
NextWordPeeked(pk, buf) ==
    IF pk.ret # "nil"
    THEN IF pk.ret = "EOF" THEN NextWordEnd(pk.fr, buf)
         ELSE [fr |-> pk.fr, val |-> <<>>, ret |-> pk.ret]
    ELSE IF IsSpace(pk.val) THEN NextWordEnd(pk.fr, buf)
    ELSE NextWordLoop(Skip(ReadByte(pk.fr)), Append(buf, pk.val))

NextWordLoop(f, buf) == NextWordPeeked(PeekByte(f), buf)

\* NextWord after SkipSpaces returned s.
NextWordSkipped(s) ==
    IF s.ret # "nil" THEN [fr |-> s.fr, val |-> <<>>, ret |-> s.ret]
    ELSE NextWordLoop(s.fr, <<>>)

NextWord(f) == NextWordSkipped(SkipSpaces(f))

\* Go's int and int64 wrap around on overflow; so does uint64.
WrapInt(x) == ((x + 2 ^ (IntBits - 1)) % (2 ^ IntBits)) - 2 ^ (IntBits - 1)

WrapUint(x) == x % (2 ^ IntBits)

MinInt == -(2 ^ (IntBits - 1))

MaxInt == 2 ^ (IntBits - 1) - 1

\* Mutant of NextIntEnd: a number without digits is recorded as the sticky error.
NextIntEnd_Sticky(f, sign, val, digitsRead) ==
    IF digitsRead = 0
    THEN [fr |-> [f EXCEPT !.err = "nodigits"], val |-> 0, ret |-> "nodigits"]
    ELSE [fr |-> f, val |-> WrapInt(sign * val), ret |-> "nil"]

\* Mutant of NextIntEnd: the sign is dropped.
NextIntEnd_NoSign(f, sign, val, digitsRead) ==
    IF digitsRead = 0 THEN [fr |-> f, val |-> 0, ret |-> "nodigits"]
    ELSE [fr |-> f, val |-> val, ret |-> "nil"]

\* NextInt after its loop.
NextIntEnd(f, sign, val, digitsRead) ==
    IF digitsRead = 0 THEN [fr |-> f, val |-> 0, ret |-> "nodigits"]
    ELSE [fr |-> f, val |-> WrapInt(sign * val), ret |-> "nil"]

RECURSIVE NextIntLoop(_, _, _, _)

\* One turn of the digit loop of NextInt, after PeekByte returned pk.
NextIntPeeked(pk, sign, val, digitsRead) ==
    IF pk.ret # "nil"
    THEN IF pk.ret = "EOF" THEN NextIntEnd(pk.fr, sign, val, digitsRead)
         ELSE [fr |-> pk.fr, val |-> 0, ret |-> pk.ret]
    ELSE IF pk.val < 48 \/ pk.val > 57 THEN NextIntEnd(pk.fr, sign, val, digitsRead)
    ELSE NextIntLoop(Skip(ReadByte(pk.fr)), sign,
                     WrapInt(val * 10 + (pk.val - 48)), digitsRead + 1)

NextIntLoop(f, sign, val, digitsRead) ==
    NextIntPeeked(PeekByte(f), sign, val, digitsRead)

\* Mutant of NextIntSign: a first byte that is no digit is consumed as if it
\* were a sign.
NextIntSign_SkipsText(pk) ==
    IF pk.ret # "nil" THEN [fr |-> pk.fr, val |-> 0, ret |-> pk.ret]
    ELSE IF pk.val = 45 THEN NextIntLoop(Skip(ReadByte(pk.fr)), -1, 0, 0)
    ELSE IF pk.val < 48 \/ pk.val > 57 THEN NextIntLoop(Skip(ReadByte(pk.fr)), 1, 0, 0)
    ELSE NextIntLoop(pk.fr, 1, 0, 0)

\* Mutant of NextIntSign: '+' is no sign.
NextIntSign_NoPlus(pk) ==
    IF pk.ret # "nil" THEN [fr |-> pk.fr, val |-> 0, ret |-> pk.ret]
    ELSE IF pk.val = 45 THEN NextIntLoop(Skip(ReadByte(pk.fr)), -1, 0, 0)
    ELSE NextIntLoop(pk.fr, 1, 0, 0)

\* NextInt after the PeekByte that looks for a sign returned pk.
NextIntSign(pk) ==
    IF pk.ret # "nil" THEN [fr |-> pk.fr, val |-> 0, ret |-> pk.ret]
    ELSE IF pk.val = 45 THEN NextIntLoop(Skip(ReadByte(pk.fr)), -1, 0, 0)
    ELSE IF pk.val = 43 THEN NextIntLoop(Skip(ReadByte(pk.fr)), 1, 0, 0)
    ELSE NextIntLoop(pk.fr, 1, 0, 0)

\* NextInt after SkipSpaces returned s.
NextIntSkipped(s) ==
    IF s.ret # "nil" THEN [fr |-> s.fr, val |-> 0, ret |-> s.ret]
    ELSE NextIntSign(PeekByte(s.fr))

NextInt(f) == NextIntSkipped(SkipSpaces(f))

\* NextInt64 is NextInt word for word, on int64.
NextInt64(f) == NextIntSkipped(SkipSpaces(f))

\* NextUint64 after its loop.
NextUint64End(f, val, digitsRead) ==
    IF digitsRead = 0 THEN [fr |-> f, val |-> 0, ret |-> "nodigits"]
    ELSE [fr |-> f, val |-> val, ret |-> "nil"]

RECURSIVE NextUint64Loop(_, _, _)

\* One turn of the digit loop of NextUint64, after PeekByte returned pk.
NextUint64Peeked(pk, val, digitsRead) ==
    IF pk.ret # "nil"
    THEN IF pk.ret = "EOF" THEN NextUint64End(pk.fr, val, digitsRead)
         ELSE [fr |-> pk.fr, val |-> 0, ret |-> pk.ret]
    ELSE IF pk.val < 48 \/ pk.val > 57 THEN NextUint64End(pk.fr, val, digitsRead)
    ELSE NextUint64Loop(Skip(ReadByte(pk.fr)),
                        WrapUint(val * 10 + (pk.val - 48)), digitsRead + 1)

NextUint64Loop(f, val, digitsRead) == NextUint64Peeked(PeekByte(f), val, digitsRead)

\* NextUint64 after the PeekByte that looks for '+' returned pk.
NextUint64Sign(pk) ==
    IF pk.ret # "nil" THEN [fr |-> pk.fr, val |-> 0, ret |-> pk.ret]
    ELSE IF pk.val = 43 THEN NextUint64Loop(Skip(ReadByte(pk.fr)), 0, 0)
    ELSE NextUint64Loop(pk.fr, 0, 0)

\* NextUint64 after SkipSpaces returned s.
NextUint64Skipped(s) ==
    IF s.ret # "nil" THEN [fr |-> s.fr, val |-> 0, ret |-> s.ret]
    ELSE NextUint64Sign(PeekByte(s.fr))

NextUint64(f) == NextUint64Skipped(SkipSpaces(f))

\* NextLine after its loop: a trailing '\r' is cut off.
NextLineEnd(f, buf) ==
    IF Len(buf) > 0 /\ buf[Len(buf)] = 13
    THEN [fr |-> f, val |-> SubSeq(buf, 1, Len(buf) - 1), ret |-> "nil"]
    ELSE [fr |-> f, val |-> buf, ret |-> "nil"]

RECURSIVE NextLineLoop(_, _)

\* One turn of the loop of NextLine, after ReadByte returned rb.
NextLineRead(rb, buf) ==
    IF rb.ret # "nil"
    THEN IF rb.ret = "EOF"
         THEN IF Len(buf) = 0 THEN [fr |-> rb.fr, val |-> <<>>, ret |-> "EOF"]
              ELSE NextLineEnd(rb.fr, buf)
         ELSE [fr |-> rb.fr, val |-> <<>>, ret |-> rb.ret]
    ELSE IF rb.val = 10 THEN NextLineEnd(rb.fr, buf)
    ELSE NextLineLoop(rb.fr, Append(buf, rb.val))

NextLineLoop(f, buf) == NextLineRead(ReadByte(f), buf)

NextLine(f) == NextLineLoop(f, <<>>)

\* ------------------------------------------------------------------ state
VARIABLES
    fw,       \* the FastWriter, its sink in field w
    written,  \* the bytes of every write operation that returned no error, in call order
    wlast,    \* the last writer operation: name, argument, error returned, engine before it
    wops,     \* writer operations performed
    fr,       \* the FastReader, its source in field r
    rlast,    \* the last reader operation: name, value and error returned, engine before it
    rt,       \* the round trip: the integers to write, how far it is, the results read back
    tk        \* the twin of fr, reading the same input in other chunks, and its last result

wvars == <<fw, written, wlast, wops>>

rvars == <<fr, rlast>>

vars == <<fw, written, wlast, wops, fr, rlast, rt, tk>>

\* All sequences over S of length at most n.
SeqsUpTo(S, n) == UNION {[1..k -> S] : k \in 0..n}

\* The engines and the round trip when a specification does not use them.
IdleWriter == NewWriter(NewSink(0, "ok"))

IdleReader == NewReader(NewSource(<<>>))

IdleRoundTrip == [stage |-> "off", ints |-> <<>>, done |-> 0, got |-> <<>>]

IdleTwin == [fr |-> IdleReader, val |-> 0, ret |-> "nil"]

WriterIdle ==
    /\ fw = IdleWriter
    /\ written = <<>>
    /\ wlast = [op |-> "New", arg |-> <<>>, ret |-> "nil", pre |-> fw]
    /\ wops = 0

ReaderIdle ==
    /\ fr = IdleReader
    /\ rlast = [op |-> "New", val |-> 0, ret |-> "nil", pre |-> fr]

\* ------------------------------------------------------------------ inputs
\* Payload bytes are numbered by their place in the whole output stream, so
\* that a lost, repeated or reordered byte shows.
Payload(n) == [i \in 1..n |-> 100 + ((Len(written) + i) % 100)]

\* Lengths that fit, fill exactly, exceed the free space and exceed the capacity.
WriteLens ==
    {0, 1, defaultWriterBufSize - 1, defaultWriterBufSize,
     defaultWriterBufSize + 1, 2 * defaultWriterBufSize + 1}

StringLens == {2}

LineLens == {0, defaultWriterBufSize - 1, defaultWriterBufSize}

WriteInts == {0, -10}

Sinks ==
    {NewSink(0, "ok")} \cup
    {NewSink(k, a) : k \in 0..MaxOkCalls, a \in {"fail", "short"}}

\* Thresholds: rejected ones (0 and above the capacity), the smallest, the capacity.
AutoFlushLimits == {0, 1, defaultWriterBufSize, defaultWriterBufSize + 1}

Writers ==
    {NewWriter(w) : w \in Sinks} \cup
    {NewWriterWithAutoFlush(w, l) : w \in Sinks, l \in AutoFlushLimits}

\* ------------------------------------------------------------------ writer actions
WInit ==
    /\ fw \in Writers
    /\ written = <<>>
    /\ wlast = [op |-> "New", arg |-> <<>>, ret |-> "nil", pre |-> fw]
    /\ wops = 0
    /\ ReaderIdle
    /\ rt = IdleRoundTrip
    /\ tk = IdleTwin

WStep(op, arg, r) ==
    /\ wops < MaxWriterOps
    /\ fw' = r.fw
    /\ written' = IF r.ret = "nil" THEN written \o arg ELSE written
    /\ wlast' = [op |-> op, arg |-> arg, ret |-> r.ret, pre |-> fw]
    /\ wops' = wops + 1
    /\ UNCHANGED <<fr, rlast, rt, tk>>

DoWriteByte ==
    \E n \in {1} : LET p == Payload(n) IN WStep("WriteByte", p, WriteByte(fw, p[1]))

DoWriteBytes ==
    \E n \in WriteLens : LET p == Payload(n) IN WStep("WriteBytes", p, WriteBytes(fw, p))

DoWriteString ==
    \E n \in StringLens : LET p == Payload(n) IN WStep("WriteString", p, WriteString(fw, p))

DoWriteLine ==
    \E n \in LineLens :
        LET p == Payload(n) IN WStep("WriteLine", Append(p, 10), WriteLine(fw, p))

DoWriteInt ==
    \E v \in WriteInts : WStep("WriteInt", AppendInt(v), WriteInt(fw, v))

DoFlush == WStep("Flush", <<>>, Flush(fw))

WNext ==
    \/ DoWriteByte
    \/ DoWriteBytes
    \/ DoWriteString
    \/ DoWriteLine
    \/ DoWriteInt
    \/ DoFlush

Spec == WInit /\ [][WNext]_vars

\* ------------------------------------------------------------------ reader inputs
\* LF (white space and line end), a digit, a letter.
ReaderBytes == {10, 49, 97}

ReaderInputs == SeqsUpTo(ReaderBytes, MaxInput)

\* What a Read call may return: one byte, no byte and no error, the end of
\* the input or a failure, both together with a byte if one is left.
Answers ==
    {[n |-> 1, err |-> "nil"], [n |-> 0, err |-> "nil"],
     [n |-> 1, err |-> "EOF"], [n |-> 1, err |-> "ioerr"]}

\* How the source answers the Read calls of one operation.
Scripts == {<<>>} \cup {<<a>> : a \in Answers} \cup {<<a, b>> : a \in Answers, b \in Answers}

WithScript(f, sc) == [f EXCEPT !.r.script = sc]

\* SkipSpaces returns no value.
NoVal(r) == [fr |-> r.fr, val |-> 0, ret |-> r.ret]

\* ------------------------------------------------------------------ reader actions
RInit ==
    /\ fr \in {NewReader(NewSource(d)) : d \in ReaderInputs}
    /\ rlast = [op |-> "New", val |-> 0, ret |-> "nil", pre |-> fr]
    /\ WriterIdle
    /\ rt = IdleRoundTrip
    /\ tk = IdleTwin

RStep(op, r) ==
    /\ fr' = WithScript(r.fr, <<>>)
    /\ rlast' = [op |-> op, val |-> r.val, ret |-> r.ret, pre |-> fr]
    /\ UNCHANGED <<fw, written, wlast, wops, rt, tk>>

DoReadByte == \E sc \in Scripts : RStep("ReadByte", ReadByte(WithScript(fr, sc)))

DoPeekByte == \E sc \in Scripts : RStep("PeekByte", PeekByte(WithScript(fr, sc)))

DoSkipSpaces == \E sc \in Scripts : RStep("SkipSpaces", NoVal(SkipSpaces(WithScript(fr, sc))))

DoNextWord == \E sc \in Scripts : RStep("NextWord", NextWord(WithScript(fr, sc)))

DoNextLine == \E sc \in Scripts : RStep("NextLine", NextLine(WithScript(fr, sc)))

DoNextInt == \E sc \in Scripts : RStep("NextInt", NextInt(WithScript(fr, sc)))

DoNextInt64 == \E sc \in Scripts : RStep("NextInt64", NextInt64(WithScript(fr, sc)))

DoNextUint64 == \E sc \in Scripts : RStep("NextUint64", NextUint64(WithScript(fr, sc)))

RNext ==
    \/ DoReadByte
    \/ DoPeekByte
    \/ DoSkipSpaces
    \/ DoNextWord
    \/ DoNextLine
    \/ DoNextInt
    \/ DoNextInt64
    \/ DoNextUint64

SpecReader == RInit /\ [][RNext]_vars

\* ------------------------------------------------------------------ round trip
\* The integers written: the ends of the range, zero, one and several digits.
IntSamples == {MinInt, -10, -1, 0, 10, MaxInt}

\* space, tab, CR, LF
Whitespace == {32, 9, 13, 10}

\* Writers on a sink that accepts everything, as bytes.Buffer does.
RoundTripWriters ==
    {NewWriter(NewSink(0, "ok"))} \cup
    {NewWriterWithAutoFlush(NewSink(0, "ok"), l) : l \in {1, defaultWriterBufSize}}

\* A source that reads a fixed input back: every Read delivers at least one
\* byte while bytes are left, and the end of the input comes with the last
\* byte or after it; left is the number of bytes not delivered yet.
RECURSIVE WellBehaved(_, _)
WellBehaved(sc, left) ==
    IF sc = <<>> THEN TRUE
    ELSE IF Head(sc) = [n |-> 1, err |-> "nil"]
    THEN left >= 1 /\ WellBehaved(Tail(sc), left - 1)
    ELSE IF Head(sc) = [n |-> 1, err |-> "EOF"]
    THEN left <= 1 /\ WellBehaved(Tail(sc), 0)
    ELSE FALSE

RTInit ==
    /\ fw \in RoundTripWriters
    /\ written = <<>>
    /\ wlast = [op |-> "New", arg |-> <<>>, ret |-> "nil", pre |-> fw]
    /\ wops = 0
    /\ ReaderIdle
    /\ \E ints \in SeqsUpTo(IntSamples, MaxInts) :
          rt = [stage |-> IF ints = <<>> THEN "flush" ELSE "int",
                ints |-> ints, done |-> 0, got |-> <<>>]
    /\ tk = IdleTwin

\* One writer call of the round trip; the budget of operations is not used here.
RTWrite(op, arg, r) ==
    /\ fw' = r.fw
    /\ written' = IF r.ret = "nil" THEN written \o arg ELSE written
    /\ wlast' = [op |-> op, arg |-> arg, ret |-> r.ret, pre |-> fw]
    /\ UNCHANGED <<wops, fr, rlast, tk>>

RTWriteInt ==
    /\ rt.stage = "int"
    /\ RTWrite("WriteInt", AppendInt(rt.ints[rt.done + 1]), WriteInt(fw, rt.ints[rt.done + 1]))
    /\ rt' = [rt EXCEPT !.done = rt.done + 1,
                        !.stage = IF rt.done + 1 = Len(rt.ints) THEN "flush" ELSE "sep"]

RTWriteSep ==
    /\ rt.stage = "sep"
    /\ \E b \in Whitespace : RTWrite("WriteByte", <<b>>, WriteByte(fw, b))
    /\ rt' = [rt EXCEPT !.stage = "int"]

RTFlush ==
    /\ rt.stage = "flush"
    /\ RTWrite("Flush", <<>>, Flush(fw))
    /\ rt' = [rt EXCEPT !.stage = "open"]

\* The bytes the sink holds become the input of a new reader.
RTOpen ==
    /\ rt.stage = "open"
    /\ fr' = NewReader(NewSource(fw.w.data))
    /\ rlast' = [op |-> "New", val |-> 0, ret |-> "nil", pre |-> fr']
    /\ rt' = [rt EXCEPT !.stage = "read"]
    /\ UNCHANGED <<wvars, tk>>

RTRead(r) ==
    /\ fr' = WithScript(r.fr, <<>>)
    /\ rlast' = [op |-> "NextInt", val |-> r.val, ret |-> r.ret, pre |-> fr]
    /\ rt' = [rt EXCEPT !.got = Append(rt.got, [val |-> r.val, ret |-> r.ret])]
    /\ UNCHANGED <<wvars, tk>>

\* One NextInt per integer written, and one more.
RTNextInt ==
    /\ rt.stage = "read"
    /\ Len(rt.got) <= Len(rt.ints)
    /\ \E sc \in Scripts :
          /\ WellBehaved(sc, Len(fr.r.data))
          /\ RTRead(NextInt(WithScript(fr, sc)))

RTNext ==
    \/ RTWriteInt
    \/ RTWriteSep
    \/ RTFlush
    \/ RTOpen
    \/ RTNextInt

SpecRoundTrip == RTInit /\ [][RTNext]_vars

\* ------------------------------------------------------------------ tokenizing
\* Lines of 'a' and CR, ended by LF or not; CR and LF are white space too.
LineInputs == SeqsUpTo({10, 13, 97}, MaxTokenInput)

\* Integers of '0' and '2', negative or not, between spaces.
IntInputs == SeqsUpTo({32, 45, 48, 50}, MaxTokenInput)

\* Words and integers with '+', and text that is no integer, between tabs.
WordInputs == SeqsUpTo({9, 43, 50, 97}, MaxTokenInput)

TokenInputs == LineInputs \cup IntInputs \cup WordInputs

\* What one Read call of a source that reads a fixed input back may return:
\* one byte, or the last one or two bytes together with the end of the input.
ChunkAnswers == {[n |-> 1, err |-> "nil"], [n |-> 2, err |-> "EOF"]}

\* How the source answers the first Reads of an operation; it answers the
\* others with all it can deliver.
Chunkings ==
    {<<>>} \cup {<<a>> : a \in ChunkAnswers} \cup
    {<<a, b>> : a \in ChunkAnswers, b \in ChunkAnswers}

\* The source delivers at least one byte per Read while bytes are left, and
\* reports the end of the input with the last bytes or after them; left is
\* the number of bytes not delivered yet.  Nothing is asked after the end.
RECURSIVE WellSplit(_, _)
WellSplit(sc, left) ==
    IF sc = <<>> THEN TRUE
    ELSE IF Head(sc).err = "nil"
    THEN left >= 1 /\ WellSplit(Tail(sc), left - Min(Head(sc).n, left))
    ELSE left <= Head(sc).n /\ Tail(sc) = <<>>

\* The reader with each way its source may split what it still holds.
Chunked(f) == {WithScript(f, sc) : sc \in {c \in Chunkings : WellSplit(c, Len(f.r.data))}}

\* The reader and its twin start on the same input; the twin's source
\* delivers all it can on every Read, and then (0, EOF).
TInit ==
    /\ fr \in {NewReader(NewSource(d)) : d \in TokenInputs}
    /\ rlast = [op |-> "New", val |-> 0, ret |-> "nil", pre |-> fr]
    /\ tk = [fr |-> fr, val |-> 0, ret |-> "nil"]
    /\ WriterIdle
    /\ rt = IdleRoundTrip

\* The same operation on the reader (result r) and on its twin (result t).
TStep(op, r, t) ==
    /\ fr' = WithScript(r.fr, <<>>)
    /\ rlast' = [op |-> op, val |-> r.val, ret |-> r.ret, pre |-> fr]
    /\ tk' = [fr |-> t.fr, val |-> t.val, ret |-> t.ret]
    /\ UNCHANGED <<wvars, rt>>

TReadByte == \E f \in Chunked(fr) : TStep("ReadByte", ReadByte(f), ReadByte(tk.fr))

TPeekByte == \E f \in Chunked(fr) : TStep("PeekByte", PeekByte(f), PeekByte(tk.fr))

TSkipSpaces ==
    \E f \in Chunked(fr) :
        TStep("SkipSpaces", NoVal(SkipSpaces(f)), NoVal(SkipSpaces(tk.fr)))

TNextWord == \E f \in Chunked(fr) : TStep("NextWord", NextWord(f), NextWord(tk.fr))

TNextInt == \E f \in Chunked(fr) : TStep("NextInt", NextInt(f), NextInt(tk.fr))

TNextLine == \E f \in Chunked(fr) : TStep("NextLine", NextLine(f), NextLine(tk.fr))

TNextInt64 == \E f \in Chunked(fr) : TStep("NextInt64", NextInt64(f), NextInt64(tk.fr))

TNextUint64 == \E f \in Chunked(fr) : TStep("NextUint64", NextUint64(f), NextUint64(tk.fr))

TNext ==
    \/ TReadByte
    \/ TPeekByte
    \/ TSkipSpaces
    \/ TNextWord
    \/ TNextInt
    \/ TNextLine
    \/ TNextInt64
    \/ TNextUint64

SpecTokens == TInit /\ [][TNext]_vars

\* ------------------------------------------------------------------ round trip claim
\* C1: the integers written with WriteInt, one white-space byte between two
\* of them, and flushed, are what NextInt returns from the sink's bytes, in
\* order and without error, and the NextInt after the last one returns
\* end-of-input.
C1_RoundTrip ==
    \A i \in 1..Len(rt.got) :
        IF i <= Len(rt.ints)
        THEN rt.got[i] = [val |-> rt.ints[i], ret |-> "nil"]
        ELSE rt.got[i].ret = "EOF"

\* Both ends of the integer range went round, and end-of-input followed.
C1_Witness ==
    /\ rt.stage = "read"
    /\ Len(rt.ints) >= 2
    /\ rt.ints[1] = MinInt
    /\ rt.ints[2] = MaxInt
    /\ Len(rt.got) = Len(rt.ints) + 1
    /\ rt.got[1].val = MinInt
    /\ rt.got[Len(rt.got)].ret = "EOF"
    /\ fr.r.calls > 2

\* ------------------------------------------------------------------ reader claims
rpre == rlast.pre

\* The reader has recorded end-of-input and holds no unread byte.
Exhausted(f) == f.err = "EOF" /\ f.pos >= f.n

ReadOps == {"ReadByte", "PeekByte", "NextWord", "NextLine", "NextInt", "NextInt64", "NextUint64"}

\* C9: once the reader is exhausted, each of readByte, peekByte, nextWord,
\* nextLine, nextInt, nextInt64 and nextUint64 returns end-of-input, the
\* sticky error stays end-of-input and the reader stays exhausted.
C9_ExhaustedStaysExhausted ==
    Exhausted(rpre) =>
        /\ Exhausted(fr)
        /\ Err(fr) = "EOF"
        /\ (rlast.op \in ReadOps => rlast.ret = "EOF")

\* A tokenizer called on a reader that had read its input to the end.
C9_Witness ==
    /\ Exhausted(rpre)
    /\ rpre.r.calls >= 2
    /\ rpre.r.data = <<>>
    /\ rlast.op = "NextInt"
    /\ rlast.ret = "EOF"

\* C10: once a terminal condition is recorded the source is not called
\* again, whatever it still holds.
C10_NoSourceCallAfterTerminal ==
    rpre.err # "nil" =>
        /\ fr.r.calls = rpre.r.calls
        /\ fr.r.data = rpre.r.data
        /\ fr.err = rpre.err

\* The source answered a Read with no byte and no error while it held more
\* bytes, and an operation followed.
C10_Witness ==
    /\ rpre.err = "EOF"
    /\ rpre.n = 0
    /\ rpre.r.data # <<>>
    /\ rlast.op = "ReadByte"
    /\ rlast.ret = "EOF"

\* The source reported a failure together with a byte; the byte was read.
C10_WitnessFailure ==
    /\ rpre.err = "ioerr"
    /\ rpre.r.data # <<>>
    /\ rlast.op \in ReadOps

\* End-of-input came with bytes that were still unread when the operation began.
C10_WitnessBuffered ==
    /\ rpre.err = "EOF"
    /\ rpre.pos < rpre.n
    /\ rpre.r.data # <<>>
    /\ rlast.op = "ReadByte"
    /\ fr.pos >= fr.n

\* The bytes not consumed yet: the unread ones of the buffer, then those the
\* source still holds.
Unread(f) == Slice(f.buf, f.pos, f.n) \o f.r.data

\* The operation consumed exactly the first byte that was unread before it.
ConsumedOne == Unread(rpre) # <<>> /\ Unread(fr) = Tail(Unread(rpre))

ConsumedNone == Unread(fr) = Unread(rpre)

\* C11 as claimed: a readByte called while an unread byte is buffered and no
\* error is recorded returns that byte with no error and consumes it, and a
\* readByte that signals end-of-input has consumed no byte.
C11_ReadByteByteOrError ==
    rlast.op = "ReadByte" =>
        /\ (rpre.pos < rpre.n /\ rpre.err = "nil" =>
                rlast.ret = "nil" /\ rlast.val = Head(Unread(rpre)) /\ ConsumedOne)
        /\ (rlast.ret = "EOF" => ConsumedNone)

\* C11, amended: readByte returns the next byte and an error together when
\* the byte it consumes is the last one it can get.  A call with no error
\* has consumed the next unread byte, returns it and leaves another unread
\* byte in the buffer; a call with an error returns the sticky error and has
\* either consumed nothing, or consumed the next unread byte, returns it and
\* leaves the buffer empty; a call that finds an unread byte in the buffer and
\* no failure recorded always consumes it.
C11_ReadByteLastByteWithError ==
    rlast.op = "ReadByte" =>
        /\ IF rlast.ret = "nil"
           THEN ConsumedOne /\ rlast.val = Head(Unread(rpre)) /\ fr.pos < fr.n
           ELSE /\ rlast.ret = Err(fr)
                /\ \/ ConsumedNone /\ rlast.val = 0
                   \/ ConsumedOne /\ rlast.val = Head(Unread(rpre)) /\ fr.pos >= fr.n
        /\ (rpre.pos < rpre.n /\ rpre.err \in {"nil", "EOF"} => ConsumedOne)

\* The final byte of the input came back together with end-of-input, found
\* by reading ahead.
C11_Witness ==
    /\ rlast.op = "ReadByte"
    /\ rpre.err = "nil"
    /\ rpre.pos + 1 = rpre.n
    /\ rpre.r.data = <<>>
    /\ rlast.val = 97
    /\ rlast.ret = "EOF"
    /\ fr.r.calls = rpre.r.calls + 1
    /\ Unread(fr) = <<>>

\* A byte came back with no error after the read-ahead refilled the buffer.
C11_WitnessRefilled ==
    /\ rlast.op = "ReadByte"
    /\ rpre.pos + 1 = rpre.n
    /\ rlast.ret = "nil"
    /\ fr.r.calls = rpre.r.calls + 1
    /\ fr.pos = 0
    /\ fr.n > 0

\* C12: peekByte does not consume.  After a peekByte that returned a byte,
\* the bytes still to be delivered are what they were, a second peekByte
\* returns the same byte, and a readByte returns that byte too, however the
\* source answers.
C12_PeekDoesNotConsume ==
    rlast.op = "PeekByte" /\ rlast.ret = "nil" =>
        /\ ConsumedNone
        /\ rlast.val = Head(Unread(fr))
        /\ \A sc \in Scripts :
              /\ PeekByte(WithScript(fr, sc)).ret = "nil"
              /\ PeekByte(WithScript(fr, sc)).val = rlast.val
              /\ ReadByte(WithScript(fr, sc)).val = rlast.val

\* The Read calls the last operation made.
SourceCalls == fr.r.calls - rpre.r.calls

\* C19 as claimed: a readByte or peekByte that finds an unread byte in the
\* buffer is served from the buffer and makes no source call.
C19_OnDemandRefill ==
    rlast.op \in {"ReadByte", "PeekByte"} /\ rpre.pos < rpre.n => SourceCalls = 0

\* C19, amended: readByte reads ahead.  peekByte calls the source once when
\* the buffer holds no unread byte and no error is recorded, and not
\* otherwise.  readByte makes no call when an error is recorded or when two
\* or more unread bytes are buffered; when it consumes the last buffered byte
\* it calls the source once, for bytes the caller has not asked for yet; when
\* the buffer is empty it calls once to refill and, if that brought a single
\* byte, once more to read ahead.  Every call is made when no unread byte is left
\* in the buffer, so none is overwritten.
C19_RefillWhenEmptyOrAhead ==
    /\ rlast.op = "PeekByte" =>
          /\ SourceCalls = IF rpre.pos >= rpre.n /\ rpre.err = "nil" THEN 1 ELSE 0
          /\ rlast.ret = "nil" => ConsumedNone
    /\ rlast.op = "ReadByte" =>
          /\ rpre.err # "nil" => SourceCalls = 0
          /\ rpre.err = "nil" /\ rpre.pos + 1 < rpre.n => SourceCalls = 0
          /\ rpre.err = "nil" /\ rpre.pos + 1 = rpre.n => SourceCalls = 1
          /\ rpre.err = "nil" /\ rpre.pos >= rpre.n => SourceCalls \in {1, 2}
          /\ SourceCalls = 2 => fr.pos = 0 \/ fr.n = 0
          /\ ConsumedOne \/ ConsumedNone

\* readByte consumed the last buffered byte and read ahead: the buffer holds
\* bytes no operation has asked for.
C19_Witness ==
    /\ rlast.op = "ReadByte"
    /\ rpre.err = "nil"
    /\ rpre.pos + 1 = rpre.n
    /\ rlast.ret = "nil"
    /\ SourceCalls = 1
    /\ fr.pos = 0
    /\ fr.n >= 1

\* readByte on an empty buffer refilled it and read ahead.
C19_WitnessTwoCalls ==
    /\ rlast.op = "ReadByte"
    /\ SourceCalls = 2
    /\ rlast.ret = "nil"

\* ------------------------------------------------------------------ tokenizer claims
\* Every line of the text ends with LF.
Terminated(s) == s = <<>> \/ s[Len(s)] = 10

\* The number of bytes before the first LF, or of all bytes if there is none.
RECURSIVE LineLen(_)
LineLen(s) == IF s = <<>> \/ Head(s) = 10 THEN 0 ELSE 1 + LineLen(Tail(s))

\* A line without the CR of its CRLF.
StripCR(l) == IF l # <<>> /\ l[Len(l)] = 13 THEN SubSeq(l, 1, Len(l) - 1) ELSE l

FirstLine(s) == StripCR(SubSeq(s, 1, LineLen(s)))

\* What follows the first line and its LF.
AfterLine(s) == SubSeq(s, LineLen(s) + 2, Len(s))

\* C13: where every line still to be read ends with LF or CRLF, nextLine
\* returns the first of them without its terminator and consumes the line
\* and its LF, one result per LF; it returns end-of-input only when no
\* line is left.
C13_TerminatedLines ==
    rlast.op = "NextLine" /\ Terminated(Unread(rpre)) =>
        IF Unread(rpre) = <<>>
        THEN rlast.ret = "EOF"
        ELSE /\ rlast.ret = "nil"
             /\ rlast.val = FirstLine(Unread(rpre))
             /\ Unread(fr) = AfterLine(Unread(rpre))

\* C14: where the text still to be read is one line with no LF at its end,
\* nextLine returns all of it with no error and consumes it, and nextLine
\* returns end-of-input only when no byte was left.
C14_UnterminatedLastLine ==
    rlast.op = "NextLine" =>
        /\ (Unread(rpre) # <<>> /\ LineLen(Unread(rpre)) = Len(Unread(rpre)) =>
                /\ rlast.ret = "nil"
                /\ rlast.val = StripCR(Unread(rpre))
                /\ Unread(fr) = <<>>)
        /\ (rlast.ret = "EOF" => Unread(rpre) = <<>>)

\* The text without its leading run of space, tab, CR and LF.
RECURSIVE DropSpaces(_)
DropSpaces(s) == IF s # <<>> /\ Head(s) \in {32, 9, 13, 10} THEN DropSpaces(Tail(s)) ELSE s

\* The length of the leading run of bytes that are no white space.
RECURSIVE WordLen(_)
WordLen(s) == IF s = <<>> \/ Head(s) \in {32, 9, 13, 10} THEN 0 ELSE 1 + WordLen(Tail(s))

\* What nextWord has to do on the text t that begins at the next word.
WordRead(t) ==
    IF t = <<>>
    THEN rlast.ret = "EOF" /\ Unread(fr) = <<>>
    ELSE /\ rlast.ret = "nil"
         /\ rlast.val = SubSeq(t, 1, WordLen(t))
         /\ Unread(fr) = SubSeq(t, WordLen(t) + 1, Len(t))

\* C15: nextWord returns the next maximal run of bytes that are no white
\* space, whole, and consumes the white space before it and the run, nothing
\* more; it returns end-of-input when only white space, or nothing, is left.
C15_Words == rlast.op = "NextWord" => WordRead(DropSpaces(Unread(rpre)))

\* A word that ends the input was returned whole, after white space, from
\* bytes that came in more than one Read.
C15_Witness ==
    /\ rlast.op = "NextWord"
    /\ rlast.ret = "nil"
    /\ Len(rlast.val) >= 2
    /\ Len(Unread(rpre)) > Len(rlast.val)
    /\ Unread(fr) = <<>>
    /\ fr.r.calls >= rpre.r.calls + 2

\* Only white space was left, and nextWord returned end-of-input.
C15_WitnessTrailing ==
    /\ rlast.op = "NextWord"
    /\ rlast.ret = "EOF"
    /\ Len(Unread(rpre)) >= 2

C16_WitnessStops ==
    /\ rlast.op = "SkipSpaces"
    /\ Len(Unread(rpre)) > Len(Unread(fr))
    /\ Unread(fr) # <<>>
    /\ Head(Unread(fr)) = 97

\* The text after its sign, if it begins with one.
AfterSign(t) == IF t # <<>> /\ Head(t) \in {43, 45} THEN Tail(t) ELSE t

\* The length of the leading run of digits.
RECURSIVE DigitLen(_)
DigitLen(s) == IF s = <<>> \/ Head(s) < 48 \/ Head(s) > 57 THEN 0 ELSE 1 + DigitLen(Tail(s))

\* The decimal value of a run of digits.
RECURSIVE Decimal(_)
Decimal(ds) ==
    IF ds = <<>> THEN 0
    ELSE Decimal(SubSeq(ds, 1, Len(ds) - 1)) * 10 + (ds[Len(ds)] - 48)

\* The length and the value of the integer token the text t begins with.
TokenLen(t) == (Len(t) - Len(AfterSign(t))) + DigitLen(AfterSign(t))

TokenValue(t) ==
    (IF Head(t) = 45 THEN -1 ELSE 1) * Decimal(SubSeq(AfterSign(t), 1, DigitLen(AfterSign(t))))

AfterToken(t) == SubSeq(t, TokenLen(t) + 1, Len(t))

\* The text t begins with an integer token whose value an int holds.
ValidToken(t) ==
    /\ t # <<>>
    /\ DigitLen(AfterSign(t)) >= 1
    /\ TokenValue(t) >= MinInt
    /\ TokenValue(t) <= MaxInt

\* The text after its first word and the white space around it.
AfterWord(s) == DropSpaces(SubSeq(DropSpaces(s), WordLen(DropSpaces(s)) + 1, Len(DropSpaces(s))))

\* The result r of a nextInt is the value of the token the text t begins with.
ReadsInt(r, t) == r.ret = "nil" /\ r.val = TokenValue(t)

\* C17: a nextInt that returns the malformed-number error leaves the sticky
\* error alone (none is recorded unless the source has reported the end of
\* the input, which it does only when it holds nothing more), and the reader
\* can go on: a valid integer that comes next is returned by the next
\* nextInt, and one that comes after the text that was no number is
\* returned by nextInt once nextWord has read that text.
C17_MalformedIsValueLevel ==
    rlast.op = "NextInt" /\ rlast.ret = "nodigits" =>
        /\ Err(fr) \in {"nil", "EOF"}
        /\ (fr.r.data # <<>> => Err(fr) = "nil")
        /\ Err(fr) = "nil" \/ Err(rpre) = "EOF" \/ fr.r.calls > rpre.r.calls
        /\ \A f \in Chunked(fr) :
              /\ ValidToken(DropSpaces(Unread(fr))) =>
                    ReadsInt(NextInt(f), DropSpaces(Unread(fr)))
              /\ ValidToken(AfterWord(Unread(fr))) =>
                    ReadsInt(NextInt(NextWord(f).fr), AfterWord(Unread(fr)))

\* A sign with no digit after it was consumed and refused, no error is
\* recorded, and a valid integer follows.
C17_Witness ==
    /\ rlast.op = "NextInt"
    /\ rlast.ret = "nodigits"
    /\ Head(DropSpaces(Unread(rpre))) = 45
    /\ Len(Unread(fr)) < Len(DropSpaces(Unread(rpre)))
    /\ Err(fr) = "nil"
    /\ ValidToken(DropSpaces(Unread(fr)))

\* Text that is no number was refused, and a valid integer follows it.
C17_WitnessText ==
    /\ rlast.op = "NextInt"
    /\ rlast.ret = "nodigits"
    /\ Head(DropSpaces(Unread(rpre))) = 97
    /\ Err(fr) = "nil"
    /\ ValidToken(AfterWord(Unread(fr)))

\* The text is integer tokens, each with a value an int holds, with white
\* space between and around them.
RECURSIVE IntTokens(_)
IntTokensAt(t) ==
    \/ t = <<>>
    \/ /\ ValidToken(t)
       /\ AfterToken(t) = <<>> \/ Head(AfterToken(t)) \in {32, 9, 13, 10}
       /\ IntTokens(AfterToken(t))

IntTokens(s) == IntTokensAt(DropSpaces(s))

\* What nextInt has to do on the text t that begins at the next token.
IntRead(t) ==
    IF t = <<>>
    THEN rlast.ret = "EOF" /\ Unread(fr) = <<>>
    ELSE /\ ReadsInt(rlast, t)
         /\ Unread(fr) = AfterToken(t)

\* C18: where the text still to be read is integer tokens between white
\* space, nextInt returns the signed decimal value of the next token and
\* consumes the white space before it, its sign and its digits, nothing
\* more; it returns end-of-input, not the malformed-number error, when no
\* token is left.
C18_IntTokens ==
    rlast.op = "NextInt" /\ IntTokens(Unread(rpre)) => IntRead(DropSpaces(Unread(rpre)))

\* A negative integer was read after white space, from bytes that came in
\* more than one Read; the white space behind it stays unread.
C18_Witness ==
    /\ rlast.op = "NextInt"
    /\ IntTokens(Unread(rpre))
    /\ rlast.ret = "nil"
    /\ rlast.val < 0
    /\ fr.r.calls >= rpre.r.calls + 2
    /\ Unread(fr) # <<>>
    /\ IsSpace(Head(Unread(fr)))

\* '+2' gave 2.
C18_WitnessPlus ==
    /\ rlast.op = "NextInt"
    /\ IntTokens(Unread(rpre))
    /\ rlast.ret = "nil"
    /\ rlast.val = 2
    /\ Head(DropSpaces(Unread(rpre))) = 43

\* '-0' gave 0.
C18_WitnessMinusZero ==
    /\ rlast.op = "NextInt"
    /\ Len(Unread(rpre)) = 3
    /\ SubSeq(Unread(rpre), 1, 2) = <<45, 48>>
    /\ IntTokens(Unread(rpre))
    /\ rlast.ret = "nil"
    /\ rlast.val = 0

\* After the last token and the white space behind it: end-of-input.
C18_WitnessEnd ==
    /\ rlast.op = "NextInt"
    /\ Unread(rpre) # <<>>
    /\ IntTokens(Unread(rpre))
    /\ rlast.ret = "EOF"
    /\ Len(fr.r.data) < Len(rpre.r.data)

\* C20: the results do not depend on how the source splits the input.  A
\* reader whose source hands out the bytes in any chunks, the end of the input
\* with the last bytes or after them, and its twin on the same input, whose
\* source hands out all it can, have returned the same value and the same
\* error after every operation of the same sequence of readByte, peekByte,
\* skipWhitespace, nextWord, nextInt and nextLine, and have the same bytes
\* left to read.
C20_ChunkingIndependence ==
    /\ rlast.val = tk.val
    /\ rlast.ret = tk.ret
    /\ Unread(fr) = Unread(tk.fr)

\* A word was put together from more Reads than the twin needed.
C20_Witness ==
    /\ rlast.op = "NextWord"
    /\ rlast.ret = "nil"
    /\ Len(rlast.val) >= 2
    /\ SourceCalls >= 3
    /\ fr.r.calls > tk.fr.r.calls

\* The end of the input came with the last bytes for the reader, and has
\* not come yet for its twin.
C20_WitnessEOFWithBytes ==
    /\ rlast.op \in {"PeekByte", "NextInt"}
    /\ fr.err = "EOF"
    /\ fr.n - fr.pos >= 2
    /\ tk.fr.err = "nil"

\* C21: while k >= 1 bytes are left to read, readByte returns the next of
\* them and consumes it, with no error if k > 1 and with end-of-input if
\* k = 1, the call that consumes the final byte; peekByte returns the next
\* byte with no error, the final one too.
C21_FinalByteWithEOF ==
    rlast.op \in {"ReadByte", "PeekByte"} /\ Unread(rpre) # <<>> =>
        /\ rlast.val = Head(Unread(rpre))
        /\ IF rlast.op = "PeekByte"
           THEN rlast.ret = "nil" /\ ConsumedNone
           ELSE /\ ConsumedOne
                /\ rlast.ret = IF Len(Unread(rpre)) = 1 THEN "EOF" ELSE "nil"

\* The readByte that consumed the final byte returned it with
\* end-of-input, found by reading ahead.
C21_Witness ==
    /\ rlast.op = "ReadByte"
    /\ Len(Unread(rpre)) = 1
    /\ rpre.err = "nil"
    /\ tk.fr.r.calls >= 2
    /\ rlast.val = 97
    /\ rlast.ret = "EOF"
    /\ Unread(fr) = <<>>
    /\ SourceCalls = 1

\* peekByte returned the final byte with no error.
C21_WitnessPeek ==
    /\ rlast.op = "PeekByte"
    /\ Len(Unread(rpre)) = 1
    /\ rlast.ret = "nil"
    /\ rlast.val = 97

IntOps == {"NextInt", "NextInt64", "NextUint64"}

\* The text t begins with a byte that is no digit and no sign the operation accepts.
NotNumeric(op, t) ==
    /\ t # <<>>
    /\ Head(t) < 48 \/ Head(t) > 57
    /\ Head(t) # 43
    /\ Head(t) = 45 => op = "NextUint64"

\* The last operation, called once more on the reader f.
Again(f) ==
    IF rlast.op = "NextInt" THEN NextInt(f)
    ELSE IF rlast.op = "NextInt64" THEN NextInt64(f)
    ELSE NextUint64(f)

\* The same call repeated on f fails the same way and consumes nothing.
NoProgress(r) == r.ret = "nodigits" /\ r.val = 0 /\ Unread(r.fr) = Unread(fr)

\* The byte operation or tokenizer whose result is r has consumed the next byte.
TakesNext(r) == Len(Unread(r.fr)) < Len(Unread(fr))

\* C24: a nextInt, nextInt64 or nextUint64 whose first byte after the
\* white space is neither a digit nor a sign it accepts returns the
\* malformed-number error and consumes the white space only; the byte stays
\* the next unread one, the same call made again returns the same error
\* and consumes nothing, and readByte, nextWord and nextLine consume the byte.
C24_NoProgressOnText ==
    rlast.op \in IntOps /\ NotNumeric(rlast.op, DropSpaces(Unread(rpre))) =>
        /\ rlast.ret = "nodigits"
        /\ Unread(fr) = DropSpaces(Unread(rpre))
        /\ \A f \in Chunked(fr) :
              /\ NoProgress(Again(f))
              /\ ReadByte(f).val = Head(Unread(fr))
              /\ TakesNext(ReadByte(f))
              /\ TakesNext(NextWord(f))
              /\ TakesNext(NextLine(f))

\* The call was made with the offending byte already the next one in the
\* buffer, as a repeated call is, and changed nothing.
C24_Witness ==
    /\ rlast.op = "NextInt"
    /\ rlast.ret = "nodigits"
    /\ rpre.pos < rpre.n
    /\ rpre.buf[rpre.pos + 1] = 97
    /\ fr = rpre

\* nextUint64 consumed the white space and refused '-'.
C24_WitnessMinus ==
    /\ rlast.op = "NextUint64"
    /\ rlast.ret = "nodigits"
    /\ Len(Unread(fr)) < Len(Unread(rpre))
    /\ Unread(fr) # <<>>
    /\ Head(Unread(fr)) = 45

\* nextInt64 consumed the white space and refused a letter.
C24_WitnessInt64 ==
    /\ rlast.op = "NextInt64"
    /\ rlast.ret = "nodigits"
    /\ Len(Unread(fr)) < Len(Unread(rpre))
    /\ Unread(fr) # <<>>
    /\ Head(Unread(fr)) = 97

\* ------------------------------------------------------------------ writer claims
pre == wlast.pre

SinkAcceptsAll == fw.w.after = "ok"

IsWrite == wlast.op \in {"WriteByte", "WriteBytes", "WriteString", "WriteLine", "WriteInt"}

\* The write of the last operation fitted in the free space it found.
Fitted == pre.pos + Len(wlast.arg) <= Len(pre.buf)

\* The regions with at least one byte that the sink was called with.
DataCalls(w) == SelectSeq(w.calls, LAMBDA r : r # <<>>)

\* C2: on a sink that accepts every write in full, the bytes the sink holds
\* followed by the bytes still buffered are the bytes written, in call
\* order; so buffered bytes are not in the sink, and after a flush the sink
\* holds exactly the bytes written.
C2_OrderPreserved ==
    SinkAcceptsAll =>
        /\ wlast.ret = "nil"
        /\ fw.w.data = Concat(fw.w.calls)
        /\ fw.w.data \o Slice(fw.buf, 0, fw.pos) = written
        /\ (wlast.op = "Flush" => fw.w.data = written)

\* An oversized write went through, more bytes followed, and a flush ended it.
C2_Witness ==
    /\ SinkAcceptsAll
    /\ wlast.op = "Flush"
    /\ pre.pos > 0
    /\ Len(written) > 2 * defaultWriterBufSize + 1
    /\ fw.w.data = written

\* C3: once a sink interaction has failed the sticky error is set, the
\* operation that met the failure returns it, and every later operation
\* returns that same error, leaves buffer and position alone and does not
\* call the sink.
C3_StickyError ==
    /\ (fw.w.failed => fw.err # "nil")
    /\ (fw.w.failed /\ ~pre.w.failed => wlast.ret = fw.err)
    /\ (pre.err # "nil" =>
            /\ wlast.ret = pre.err
            /\ fw.err = pre.err
            /\ fw.pos = pre.pos
            /\ fw.buf = pre.buf
            /\ fw.w = pre.w)

\* A write of several bytes on a writer whose flush had been cut short.
C3_Witness ==
    /\ pre.err = "short"
    /\ pre.pos > 0
    /\ wlast.op = "WriteInt"
    /\ wlast.ret = "short"

\* C4: a flush that finds the buffer empty and no sticky error returns
\* success and does not call the sink.
C4_EmptyFlushNoSinkCall ==
    (wlast.op = "Flush" /\ pre.pos = 0 /\ pre.err = "nil") =>
        /\ wlast.ret = "nil"
        /\ fw.w.calls = pre.w.calls
        /\ fw = pre

\* An empty flush right after a flush that delivered bytes.
C4_Witness ==
    /\ wlast.op = "Flush"
    /\ pre.pos = 0
    /\ pre.err = "nil"
    /\ pre.w.data # <<>>
    /\ wlast.ret = "nil"

\* C5 (as claimed): a successful writeBytes of more bytes than the buffer
\* holds hands the whole sequence to the sink as one region and leaves the
\* buffer empty.
C5_OversizedBypass ==
    (wlast.op = "WriteBytes" /\ Len(wlast.arg) > Len(pre.buf) /\ wlast.ret = "nil") =>
        /\ \E i \in 1..Len(fw.w.calls) : fw.w.calls[i] = wlast.arg
        /\ fw.pos = 0

\* C6 (as claimed): without auto-flush, a writeByte or writeBytes that fits
\* in the free space makes no call to the sink.
C6_FittingWriteNoSinkCall ==
    (wlast.op \in {"WriteByte", "WriteBytes"} /\ ~pre.autoFlush /\ pre.err = "nil" /\ Fitted) =>
        fw.w.calls = pre.w.calls

\* C6 (amended): without auto-flush, a writeByte or writeBytes that fits in
\* the free space hands no byte to the sink; it makes no call to the sink
\* when the buffer already holds bytes or the data is empty, and exactly one
\* call, a zero-length probe, when it puts data into an empty buffer.
C6_FittingWriteProbeOnly ==
    (wlast.op \in {"WriteByte", "WriteBytes"} /\ ~pre.autoFlush /\ pre.err = "nil" /\ Fitted) =>
        /\ fw.w.data = pre.w.data
        /\ fw.w.calls = IF pre.pos = 0 /\ Len(wlast.arg) > 0
                        THEN Append(pre.w.calls, <<>>)
                        ELSE pre.w.calls

\* A write that exactly fills a buffer that already held bytes.
C6_Witness ==
    /\ wlast.op = "WriteBytes"
    /\ ~pre.autoFlush
    /\ pre.err = "nil"
    /\ pre.pos > 0
    /\ Len(wlast.arg) > 0
    /\ pre.pos + Len(wlast.arg) = Len(pre.buf)
    /\ wlast.ret = "nil"

\* C7: a flush that finds bytes buffered and no sticky error calls the sink
\* once, with buffer[0:position]; if the sink refuses or accepts fewer bytes
\* the flush returns an error, records it and leaves position alone;
\* otherwise it returns success and position is 0.
C7_Flush ==
    (wlast.op = "Flush" /\ pre.err = "nil" /\ pre.pos > 0) =>
        /\ fw.w.calls = Append(pre.w.calls, Slice(pre.buf, 0, pre.pos))
        /\ fw.buf = pre.buf
        /\ IF fw.w.failed
           THEN wlast.ret # "nil" /\ fw.err = wlast.ret /\ fw.pos = pre.pos
           ELSE wlast.ret = "nil" /\ fw.err = "nil" /\ fw.pos = 0
                /\ fw.w.data = pre.w.data \o Slice(pre.buf, 0, pre.pos)

\* A flush of several bytes of which the sink took all but one.
C7_Witness ==
    /\ wlast.op = "Flush"
    /\ pre.err = "nil"
    /\ pre.pos > 1
    /\ wlast.ret = "short"
    /\ Len(fw.w.data) = Len(pre.w.data) + pre.pos - 1

\* C8: with auto-flush, an operation that returns success leaves position
\* below the threshold; without auto-flush, a write that fits in the free
\* space stays in the buffer whole, whether or not the threshold is reached.
C8_AutoFlush ==
    /\ (fw.autoFlush /\ wlast.ret = "nil" => fw.pos < fw.limit)
    /\ (IsWrite /\ ~pre.autoFlush /\ pre.err = "nil" /\ wlast.ret = "nil" /\ Fitted =>
            /\ fw.pos = pre.pos + Len(wlast.arg)
            /\ DataCalls(fw.w) = DataCalls(pre.w))

\* A write reached the threshold of an auto-flushing writer and was flushed.
C8_Witness ==
    /\ fw.autoFlush
    /\ wlast.op = "WriteBytes"
    /\ wlast.ret = "nil"
    /\ pre.pos > 0
    /\ pre.pos + Len(wlast.arg) = fw.limit
    /\ fw.pos = 0
    /\ fw.w.data = written

\* A writer without auto-flush holds more bytes than the threshold it was built with.
C8_WitnessNoAutoFlush ==
    /\ ~fw.autoFlush
    /\ wlast.op = "WriteByte"
    /\ wlast.ret = "nil"
    /\ fw.pos > fw.limit

\* The sink fails every call and was not called before the operation, or
\* the writer has recorded an error already.
FailingFromStart ==
    /\ pre.w.after = "fail"
    /\ pre.w.okLeft = 0
    /\ pre.w.calls = <<>> \/ pre.err # "nil"

\* C22 as claimed: on a sink whose every call fails, the first write
\* operation returns the sink's error and records it, and so does every
\* later one.
C22_EagerFailure ==
    IsWrite /\ FailingFromStart => wlast.ret = "sinkerr" /\ Err(fw) = "sinkerr"

\* C22, amended: on a sink whose every call fails, the first write operation
\* that carries at least one byte returns the sink's error and records it,
\* after one zero-length call to the sink and with nothing buffered; every
\* write operation after it, empty or not, returns the same error and does
\* not call the sink.  A write of no bytes before it returns no error,
\* records none and does not call the sink.
C22_EagerFailureOnData ==
    IsWrite /\ FailingFromStart =>
        IF pre.err # "nil"
        THEN wlast.ret = "sinkerr" /\ Err(fw) = "sinkerr" /\ fw.w.calls = pre.w.calls
        ELSE IF Len(wlast.arg) > 0
        THEN /\ wlast.ret = "sinkerr"
             /\ Err(fw) = "sinkerr"
             /\ fw.w.calls = <<<<>>>>
             /\ fw.pos = 0
        ELSE wlast.ret = "nil" /\ Err(fw) = "nil" /\ fw.w.calls = <<>>

\* The first operation, a writeString of two bytes that fit in the buffer,
\* returned the sink's error; no flush was asked for.
C22_Witness ==
    /\ wops = 1
    /\ wlast.op = "WriteString"
    /\ FailingFromStart
    /\ ~pre.autoFlush
    /\ Len(wlast.arg) < Len(pre.buf)
    /\ wlast.ret = "sinkerr"
    /\ Err(fw) = "sinkerr"

\* A later write operation returned the same error.
C22_WitnessLater ==
    /\ wops = 2
    /\ IsWrite
    /\ FailingFromStart
    /\ pre.w.calls = <<<<>>>>
    /\ wlast.ret = "sinkerr"

\* ------------------------------------------------------------------ both engines
\* A run of one engine, the other one idle: a writer on any of the sinks or
\* a reader on any of the inputs and sources.
EnginesInit == WInit \/ RInit

WriterTurn ==
    /\ fr = IdleReader
    /\ rlast.op = "New"
    /\ WNext

ReaderTurn ==
    /\ fw = IdleWriter
    /\ wops = 0
    /\ RNext

EnginesNext ==
    \/ WriterTurn
    \/ ReaderTurn

SpecEngines == EnginesInit /\ [][EnginesNext]_vars

C23_WitnessWriter ==
    /\ wlast.op = "WriteByte"
    /\ wlast.ret = "nil"
    /\ fw.pos = Len(fw.buf)
    /\ pre.pos = Len(fw.buf) - 1

\* The source failed together with a byte that stays in the buffer.
C23_WitnessSourceFailure == fr.err = "ioerr" /\ fr.pos < fr.n /\ rlast.op = "NextLine"

\* The sink accepted too little and the bytes stay in the buffer.
C23_WitnessSinkFailure == fw.err # "nil" /\ fw.pos > 0 /\ fw.w.after = "short"

====
